---- MODULE Spec2Model ----
(***************************************************************************)
(* Model of the Slack <-> model-API bridge of ai-cafe                      *)
(* (src/claude-slack-bot.py, src/artifact.py).                             *)
(*                                                                         *)
(* Message text is a sequence of tokens.  Each token stands for a fixed    *)
(* piece of text; the single braces are tokens of their own, so that the   *)
(* doubled-brace delimiters of the directive block are matched character   *)
(* by character, as the regular expression of parse_config_block does.     *)
(*                                                                         *)
(*   "M"   <@BOT>   the bot-mention token       "P"   @public              *)
(*   "S"   a space                              "NL"  a newline            *)
(*   "{"   "}"      single braces               "X"   the word  hello      *)
(*   "A"   @aside   "AU"  @ASIDE                "L"   the LONGRESPONSE text*)
(*   "V"   the scalar literal 0.5               "N"   the key prefix "n":  *)
(*   "Kt"  "temperature": 0.2                   "Kc"  "claude": False      *)
(*   "Kb1" "is_bot_mention": True               "Kb0" "is_bot_mention": False *)
(*   "Kp0" "is_public": False                                              *)
(*                                                                         *)
(* A Python value stored in a directive map is kept as the token sequence  *)
(* of its literal (<<"True">>, <<"0.2">>, <<"{","Kt","}">>, ...).          *)
(***************************************************************************)
EXTENDS Integers, Sequences, FiniteSets, TLC

VARIABLES
    p_src,      \* parse_config_block: how the input text was composed
    p_text,     \* parse_config_block: the input text
    p_result,   \* parse_config_block: outcome (returned pair, or exception)
    f_thread,   \* format_thread: the thread snapshot passed in
    f_config,   \* format_thread: the directive map passed in
    f_failing,  \* format_thread: ids of the files whose resolution fails
    f_out,      \* format_thread: outcome (turns and the thread as left behind)
    l_text,     \* handle_large_response: the model's output text
    l_upload,   \* handle_large_response: what files_upload_v2 does ("ok", "raise")
    l_result,   \* handle_large_response: outcome
    pc,         \* handle_message: where the handler of the current event stands
    event,      \* handle_message: the event being handled
    world,      \* the thread of the event as the platform holds it
    h_thread,   \* handle_message: the snapshot fetched, as the handler holds it
    h_config,   \* handle_message: the directive map in force
    formatted_messages,  \* handle_message: the turns of the model request
    calls,      \* the client calls the handler has made, in order
    exc,        \* the exception caught at the handler's boundary ("none" if none)
    raised,     \* an exception has left handle_message
    a_text,     \* parse_artifacts: the text given
    a_first,    \* parse_artifacts: outcome on a_text
    a_again,    \* parse_artifacts: outcome on the text the first call returned
    b_blocks,   \* reconstruct_artifacts: the blocks given
    b_out,      \* reconstruct_artifacts: outcome
    c_messages, \* apply_cache_headers: the turns given
    c_out,      \* apply_cache_headers: outcome
    r_thread,   \* two handlers at once: the thread as the platform holds it
    r_msg,      \* two handlers at once: the message handled, then deleted
    r_reply,    \* two handlers at once: handle_message on r_msg
    r_delete    \* two handlers at once: handle_message_deleted on r_msg

pvars == <<p_src, p_text, p_result>>
fvars == <<f_thread, f_config, f_failing, f_out>>
lvars == <<l_text, l_upload, l_result>>
hvars == <<pc, event, world, h_thread, h_config, formatted_messages, calls, exc, raised>>
avars == <<a_text, a_first, a_again, b_blocks, b_out>>
cvars == <<c_messages, c_out>>
rvars == <<r_thread, r_msg, r_reply, r_delete>>
vars == <<pvars, fvars, lvars, hvars, avars, cvars, rvars>>

(***************************************************************************)
(* Bounds of the model.                                                    *)
(***************************************************************************)
MaxInner == 2           \* longest enumerated body of a directive block, in tokens
MaxMarkers == 2         \* most leading mention / @public tokens of an input text
MaxDepth == 3           \* deepest nesting of the key/value literals of the grammar
MaxThread == 3          \* most messages of a thread snapshot
MaxResponseLen == 3050  \* longest model output, in characters
MaxTurns == 3           \* most turns given to apply_cache_headers
MaxParts == 2           \* most attachment parts of such a turn
MaxArtifactText == 4    \* longest enumerated text given to parse_artifacts, in tokens
\* blocks in a list given to reconstruct_artifacts
MaxBlocks == 3

(***************************************************************************)
(* str.strip(), str.startswith() on token sequences.                       *)
(***************************************************************************)
IsSpace(t) == t \in {"S", "NL"}

RECURSIVE LStrip(_)
LStrip(s) == IF s # <<>> /\ IsSpace(Head(s)) THEN LStrip(Tail(s)) ELSE s

RECURSIVE RStrip(_)
RStrip(s) ==
    IF s # <<>> /\ IsSpace(s[Len(s)]) THEN RStrip(SubSeq(s, 1, Len(s) - 1)) ELSE s

Strip(s) == RStrip(LStrip(s))

StartsWith(s, tok) == s # <<>> /\ Head(s) = tok

At(t, i) == IF i \in 1..Len(t) THEN t[i] ELSE "EOF"

(***************************************************************************)
(* Directive maps: functions from option name to the value's literal.      *)
(***************************************************************************)
EmptyConfig == [k \in {} |-> <<>>]

PyTrue == <<"True">>
PyFalse == <<"False">>

\* dict.get(key) read as a truth value (absent -> None -> false)
Truthy(config, key) ==
    key \in DOMAIN config /\ config[key] \notin {PyFalse, <<"{", "}">>}

\* dict.update(other): the entries of other win
Update(config, other) == other @@ config

(***************************************************************************)
(* ast.literal_eval on '{' + config_str + '}'                              *)
(***************************************************************************)
PairAtoms == {"Kt", "Kc", "Kb1", "Kb0", "Kp0"}

PairKey(a) ==
    CASE a = "Kt" -> "temperature"
      [] a = "Kc" -> "claude"
      [] a = "Kb1" -> "is_bot_mention"
      [] a = "Kb0" -> "is_bot_mention"
      [] a = "Kp0" -> "is_public"

PairVal(a) ==
    CASE a = "Kt" -> <<"0.2">>
      [] a = "Kc" -> PyFalse
      [] a = "Kb1" -> PyTrue
      [] a = "Kb0" -> PyFalse
      [] a = "Kp0" -> PyFalse

RECURSIVE DropSpace(_)
DropSpace(s) ==
    IF s = <<>> THEN <<>>
    ELSE IF IsSpace(Head(s)) THEN DropSpace(Tail(s))
    ELSE <<Head(s)>> \o DropSpace(Tail(s))

NoParse == [syn |-> FALSE, ev |-> "ok", kind |-> "dict", next |-> 0,
            items |-> EmptyConfig, val |-> <<>>]

Parsed(ev, kind, next, items, val) ==
    [syn |-> TRUE, ev |-> ev, kind |-> kind, next |-> next,
     items |-> items, val |-> val]

\* One brace display starting at t[i]: syn = the text is an expression,
\* ev = outcome of evaluating it ("ok", "value": ValueError for a name,
\* "type": TypeError for an unhashable set element), kind = dict or set.
RECURSIVE Display(_, _)
Display(t, i) ==
    IF At(t, i) # "{" THEN NoParse
    ELSE LET a == At(t, i + 1) IN
      CASE a = "}" -> Parsed("ok", "dict", i + 2, EmptyConfig, <<"{", "}">>)
        [] a \in PairAtoms ->
             IF At(t, i + 2) # "}" THEN NoParse
             ELSE Parsed("ok", "dict", i + 3, PairKey(a) :> PairVal(a), <<"{", a, "}">>)
        [] a = "N" ->
             LET b == At(t, i + 2) IN
             CASE b = "V" ->
                    IF At(t, i + 3) # "}" THEN NoParse
                    ELSE Parsed("ok", "dict", i + 4, "n" :> <<"V">>, <<"{", "N", "V", "}">>)
               [] b = "X" ->
                    IF At(t, i + 3) # "}" THEN NoParse
                    ELSE Parsed("value", "dict", i + 4, EmptyConfig, <<>>)
               [] b = "{" ->
                    LET r == Display(t, i + 2) IN
                    IF ~r.syn \/ At(t, r.next) # "}" THEN NoParse
                    ELSE Parsed(r.ev, "dict", r.next + 1, "n" :> r.val,
                                <<"{", "N">> \o r.val \o <<"}">>)
               [] OTHER -> NoParse
        [] a = "V" ->
             IF At(t, i + 2) # "}" THEN NoParse
             ELSE Parsed("ok", "set", i + 3, EmptyConfig, <<"{", "V", "}">>)
        [] a = "X" ->
             IF At(t, i + 2) # "}" THEN NoParse
             ELSE Parsed("value", "set", i + 3, EmptyConfig, <<>>)
        [] a = "{" ->
             LET r == Display(t, i + 1) IN
             IF ~r.syn \/ At(t, r.next) # "}" THEN NoParse
             ELSE Parsed(IF r.ev # "ok" THEN r.ev ELSE "type", "set", r.next + 1,
                         EmptyConfig, <<>>)
        [] OTHER -> NoParse

\* kind: "dict" (items is the mapping), "set", "TypeError" (raised by
\* literal_eval), "SyntaxOrValueError" (the two classes the caller catches)
literal_eval(s) ==
    LET t == DropSpace(s)
        r == Display(t, 1)
    IN  IF ~r.syn \/ r.next # Len(t) + 1 \/ r.ev = "value"
          THEN [kind |-> "SyntaxOrValueError", items |-> EmptyConfig]
        ELSE IF r.ev = "type" THEN [kind |-> "TypeError", items |-> EmptyConfig]
        ELSE [kind |-> r.kind, items |-> r.items]

(***************************************************************************)
(* ClaudeBot.parse_config_block                                            *)
(***************************************************************************)
\* the prefix loop: strips leading <@BOT> and @public tokens
RECURSIVE strip_prefixes(_, _)
strip_prefixes(text, config) ==
    LET t == Strip(text) IN
    IF StartsWith(t, "M")
      THEN strip_prefixes(Strip(Tail(t)), ("is_bot_mention" :> PyTrue) @@ config)
    ELSE IF StartsWith(t, "P")
      THEN strip_prefixes(Strip(Tail(t)), ("is_public" :> PyTrue) @@ config)
    ELSE [text |-> t, config |-> config]

\* re.match(r'^\s*{{(.+?)}}\s*(.*)', text, re.DOTALL)
re_match(text) ==
    LET t == LStrip(text)
        closes == {j \in 4..(Len(t) - 1) : t[j] = "}" /\ t[j + 1] = "}"}
    IN  IF At(t, 1) # "{" \/ At(t, 2) # "{" \/ closes = {}
          THEN [matched |-> FALSE, config_str |-> <<>>, remaining_text |-> <<>>]
        ELSE LET j == CHOOSE k \in closes : \A m \in closes : k <= m IN
             [matched |-> TRUE,
              config_str |-> SubSeq(t, 3, j - 1),
              remaining_text |-> LStrip(SubSeq(t, j + 2, Len(t)))]

Returned(text, config) == [st |-> "ret", text |-> text, config |-> config]
Raised == [st |-> "raise", text |-> <<>>, config |-> EmptyConfig]

parse_config_block(text) ==
    LET pre == strip_prefixes(text, EmptyConfig)
        match == re_match(pre.text)
    IN  IF ~match.matched THEN Returned(Strip(pre.text), pre.config)
        ELSE LET config2 == literal_eval(<<"{">> \o match.config_str \o <<"}">>) IN
             CASE config2.kind = "SyntaxOrValueError" ->
                    Returned(Strip(pre.text), pre.config)
               [] config2.kind = "TypeError" -> Raised
               [] config2.kind = "set" -> Raised    \* config.update(set of floats)
               [] config2.kind = "dict" ->
                    Returned(Strip(match.remaining_text),
                             Update(pre.config, config2.items))

(***************************************************************************)
(* AttachmentHandler                                                       *)
(*                                                                         *)
(* A ContentPart is [type, text, file, cache_control]; file is the id of   *)
(* the attachment a part was made from ("none" for a message's own text).  *)
(***************************************************************************)
BOT == "BOT"                \* self.bot_user_id

TextPart(text) ==
    [type |-> "text", text |-> text, file |-> "none", cache_control |-> FALSE]

\* the part made from a downloaded file; None (here <<>>) when the download
\* or the decoding raises
download_and_encode_file(file_info, failing) ==
    IF file_info.id \in failing THEN <<>>
    ELSE IF file_info.mimetype \in {"image/png", "application/pdf"}
      THEN << [type |-> IF file_info.mimetype = "image/png" THEN "image" ELSE "document",
               text |-> <<>>, file |-> file_info.id, cache_control |-> FALSE] >>
    ELSE << [type |-> "text", text |-> <<"CONTENT">>, file |-> file_info.id,
             cache_control |-> FALSE] >>

\* the loop of lines 91-103 with its try around the whole loop: the first
\* file that fails ends it
RECURSIVE process_attachments_abort(_, _)
process_attachments_abort(files, failing) ==
    IF files = <<>> \/ Head(files).id \in failing THEN <<>>
    ELSE download_and_encode_file(Head(files), failing)
            \o process_attachments_abort(Tail(files), failing)

\* one part per file that resolves, in attachment order; a file that fails
\* is left out
RECURSIVE process_attachments(_, _)
process_attachments(files, failing) ==
    IF files = <<>> THEN <<>>
    ELSE download_and_encode_file(Head(files), failing)
            \o process_attachments(Tail(files), failing)

(***************************************************************************)
(* reconstruct_from_slackmsg                                               *)
(***************************************************************************)
RECURSIVE section_texts(_)
section_texts(blocks) ==
    IF blocks = <<>> THEN <<>>
    ELSE LET block == Head(blocks) IN
         (IF block.type = "section" /\ ~StartsWith(block.text, "L")
            THEN <<block.text>> ELSE <<>>)
         \o section_texts(Tail(blocks))

\* "\n".join(messages)
RECURSIVE Join(_)
Join(texts) ==
    IF texts = <<>> THEN <<>>
    ELSE IF Len(texts) = 1 THEN texts[1]
    ELSE texts[1] \o <<"NL">> \o Join(Tail(texts))

reconstruct_from_slackmsg(blocks) == Join(section_texts(blocks))

(***************************************************************************)
(* ClaudeBot.is_aside, ClaudeBot.format_thread                             *)
(***************************************************************************)
\* str.lower(): @ASIDE is the only token with upper-case letters that matter
Lower(text) == [i \in DOMAIN text |-> IF text[i] = "AU" THEN "A" ELSE text[i]]

\* is_aside without the lower(): @ASIDE is no longer recognised
is_aside_case_sensitive(text) == StartsWith(Strip(text), "A")

is_aside(text) == StartsWith(Lower(Strip(text)), "A")

\* the visibility filter with the author test left out: nobody else's
\* message passes unless the thread is public, the initiator's included
is_visible_public_only(user, initiator_id, config) ==
    IF user # BOT THEN Truthy(config, "is_public") ELSE TRUE

\* the visibility filter that lets every author through
is_visible_to_all(user, initiator_id, config) == TRUE

\* lines 316-318: the message passes the visibility filter
is_visible(user, initiator_id, config) ==
    IF user # BOT
      THEN ~(user # initiator_id /\ ~Truthy(config, "is_public"))
      ELSE TRUE

\* the loop body without lines 327-330: the raw body is kept
block_text_raw(msg) == msg.text

\* lines 327-330: the body a bot message is given from its blocks
block_text(msg) ==
    IF msg.user = BOT /\ msg.blocks # <<>>
      THEN LET blocktxt == reconstruct_from_slackmsg(msg.blocks) IN
           IF blocktxt # <<>> THEN blocktxt ELSE msg.text
      ELSE msg.text

\* the loop body without the test of lines 344-346: a message with no part
\* still appends its turn
format_message_keep_empty(msg, i, initiator_id, config, failing) ==
    IF ~is_visible(msg.user, initiator_id, config) THEN [turns |-> <<>>, msg |-> msg]
    ELSE IF is_aside(msg.text) THEN [turns |-> <<>>, msg |-> msg]
    ELSE LET text == block_text(msg) IN
         [turns |-> << [role |-> IF msg.user = BOT THEN "assistant" ELSE "user",
                        content |-> (IF text # <<>> /\ ~StartsWith(text, "L")
                                       THEN <<TextPart(text)>> ELSE <<>>)
                                    \o process_attachments(msg.files, failing),
                        src |-> i] >>,
          msg |-> [msg EXCEPT !.text = text]]

\* One iteration of the loop over thread["messages"], for the message at
\* position i: the turns it appends (none or one) and the message as the
\* iteration leaves it.  A turn carries src, the position of the message
\* it was made from, so that statements about "the turn of a message" can
\* be written; the program's turn has role and content only.
format_message(msg, i, initiator_id, config, failing) ==
    IF ~is_visible(msg.user, initiator_id, config) THEN [turns |-> <<>>, msg |-> msg]
    ELSE IF is_aside(msg.text) THEN [turns |-> <<>>, msg |-> msg]
    ELSE LET text == block_text(msg)
             formatted_content ==
                 (IF text # <<>> /\ ~StartsWith(text, "L") THEN <<TextPart(text)>> ELSE <<>>)
                 \o process_attachments(msg.files, failing)
         IN  [turns |-> IF formatted_content = <<>> THEN <<>>
                        ELSE << [role |-> IF msg.user = BOT THEN "assistant" ELSE "user",
                                 content |-> formatted_content,
                                 src |-> i] >>,
              msg |-> [msg EXCEPT !.text = text]]

RECURSIVE format_from(_, _, _, _, _)
format_from(thread, i, initiator_id, config, failing) ==
    IF i > Len(thread) THEN [formatted_messages |-> <<>>, thread |-> <<>>]
    ELSE LET one == format_message(thread[i], i, initiator_id, config, failing)
             rest == format_from(thread, i + 1, initiator_id, config, failing)
         IN  [formatted_messages |-> one.turns \o rest.formatted_messages,
              thread |-> <<one.msg>> \o rest.thread]

\* format_thread(thread, client, config): the turns, and the thread's
\* messages as the call leaves them (it assigns msg["text"])
format_thread(thread, config, failing) ==
    format_from(thread, 1, thread[1].user, config, failing)

(***************************************************************************)
(* upload_snippet, handle_large_response                                   *)
(*                                                                         *)
(* The model's output can be thousands of characters long, so it is kept   *)
(* as a sequence of runs [tok, n]: n characters of kind tok ("x" a         *)
(* character of the model's output, "T" of the truncation marker, "L" of   *)
(* the LONGRESPONSE text).                                                 *)
(***************************************************************************)
SlackLimit == 3000          \* len(text) <= 3000
TruncateAt == 2950          \* text[:2950]
TruncationMarkerLen == 25   \* len("\n... [Response truncated]")
LongResponseLen == 62       \* len(LONGRESPONSE)

Chars(tok, n) == IF n = 0 THEN <<>> ELSE <<[tok |-> tok, n |-> n]>>

LONGRESPONSE == Chars("L", LongResponseLen)
TruncationMarker == Chars("T", TruncationMarkerLen)

RECURSIVE PyLen(_)
PyLen(text) == IF text = <<>> THEN 0 ELSE Head(text).n + PyLen(Tail(text))

\* text[:k]
RECURSIVE Slice(_, _)
Slice(text, k) ==
    IF text = <<>> \/ k = 0 THEN <<>>
    ELSE IF Head(text).n <= k
      THEN <<Head(text)>> \o Slice(Tail(text), k - Head(text).n)
    ELSE Chars(Head(text).tok, k)

NoFile == "None"
UploadedFile == "llm_response.txt"

\* A call of the Slack or model client, as the handlers make it: the
\* method, whether it returned (ok) or raised, the message or thread
\* timestamp it was made for, and for say the kind of text said.
Call(op, ok, ts, kind) == [op |-> op, ok |-> ok, ts |-> ts, kind |-> kind]

\* upload_snippet: the file of the response, None when the upload raises
upload_snippet(upload, thread_ts) ==
    [file |-> IF upload = "ok" THEN UploadedFile ELSE NoFile,
     calls |-> <<Call("files_upload_v2", upload = "ok", thread_ts, "LONGRESPONSE")>>]

\* handle_large_response that drops the marker's length from the slice
\* position too late: keeps 2990 characters before the marker
handle_large_response_long_cut(text, upload, thread_ts) ==
    IF PyLen(text) <= SlackLimit THEN [text |-> text, file |-> NoFile, calls |-> <<>>]
    ELSE LET up == upload_snippet(upload, thread_ts) IN
         IF up.file # NoFile
           THEN [text |-> LONGRESPONSE, file |-> up.file, calls |-> up.calls]
         ELSE [text |-> Slice(text, TruncateAt + 40) \o TruncationMarker,
               file |-> NoFile, calls |-> up.calls]

\* handle_large_response that hands the text back for posting even when the
\* upload went through
handle_large_response_and_text(text, upload, thread_ts) ==
    IF PyLen(text) <= SlackLimit THEN [text |-> text, file |-> NoFile, calls |-> <<>>]
    ELSE LET up == upload_snippet(upload, thread_ts) IN
         [text |-> Slice(text, TruncateAt) \o TruncationMarker,
          file |-> NoFile, calls |-> up.calls]

handle_large_response(text, upload, thread_ts) ==
    IF PyLen(text) <= SlackLimit THEN [text |-> text, file |-> NoFile, calls |-> <<>>]
    ELSE LET up == upload_snippet(upload, thread_ts) IN
         IF up.file # NoFile
           THEN [text |-> LONGRESPONSE, file |-> up.file, calls |-> up.calls]
         ELSE [text |-> Slice(text, TruncateAt) \o TruncationMarker,
               file |-> NoFile, calls |-> up.calls]

(***************************************************************************)
(* ClaudeBot.apply_cache_headers                                           *)
(***************************************************************************)
MarkLast(content) ==
    [content EXCEPT ![Len(content)] = [@ EXCEPT !.cache_control = TRUE]]

\* the most recent user turn with more than one part gets its last part
\* marked; the scan stops there
RECURSIVE mark_from(_, _)
mark_from(messages, k) ==
    IF k = 0 THEN messages
    ELSE IF messages[k].role = "user" /\ Len(messages[k].content) > 1
      THEN [messages EXCEPT ![k] = [@ EXCEPT !.content = MarkLast(@)]]
    ELSE mark_from(messages, k - 1)

\* the scan run from the oldest turn: the first, not the most recent, user
\* turn with more than one part is marked
apply_cache_headers_oldest(messages) ==
    LET multi == {k \in DOMAIN messages :
                    messages[k].role = "user" /\ Len(messages[k].content) > 1}
    IN  IF multi = {} THEN messages
        ELSE LET k == CHOOSE k \in multi : \A j \in multi : k <= j
             IN  [messages EXCEPT ![k] = [@ EXCEPT !.content = MarkLast(@)]]

\* lines 402-406
apply_cache_headers(messages) == mark_from(messages, Len(messages))

(***************************************************************************)
(* Events.  An event is [subtype, message, previous_message]: for a plain  *)
(* message event (subtype "none") `message` holds the event's own fields,  *)
(* for message_changed it is event["message"]; previous_message is present *)
(* for message_changed and message_deleted.                                *)
(***************************************************************************)
NoMessage ==
    [ts |-> 0, thread_ts |-> 0, user |-> "none", text |-> <<>>, files |-> <<>>,
     blocks |-> <<>>, subtype |-> "none"]

NoEvent == [subtype |-> "none", message |-> NoMessage, previous_message |-> NoMessage]

\* a handler that goes on with the message as it was before the edit
Msg_previous(e) ==
    IF e.subtype = "message_changed" THEN e.previous_message ELSE e.message

\* line 167: msg = event if subtype != "message_changed" else event["message"]
Msg(e) == e.message

\* line 170: thread_ts = msg.get("thread_ts", msg.get("ts"))
ThreadTs(msg) == IF msg.thread_ts # 0 THEN msg.thread_ts ELSE msg.ts

\* a dispatch that hands over message_deleted events only
IsDeletion_deleted_only(e) == e.subtype = "message_deleted"

\* lines 158-159: the event is handed to handle_message_deleted
IsDeletion(e) ==
    \/ e.subtype = "message_deleted"
    \/ e.subtype = "message_changed" /\ e.message.subtype = "tombstone"

\* a gate that reads the event's own message instead
first_msg_is_event(messages, msg) == msg

\* line 195: first_msg = thread["messages"][0]
first_msg(messages, msg) == messages[1]

Turn(role, content, src) == [role |-> role, content |-> content, src |-> src]

(***************************************************************************)
(* Inputs of parse_config_block: leading marker tokens, then an optional   *)
(* doubled-brace block around a body `inner`, then the message body.       *)
(* pad = 1 separates the parts by white space, pad = 0 writes them         *)
(* adjacent.                                                               *)
(***************************************************************************)
RECURSIVE SeqsUpTo(_, _)
SeqsUpTo(S, n) ==
    IF n = 0 THEN {<<>>}
    ELSE LET shorter == SeqsUpTo(S, n - 1) IN
         shorter \cup {<<x>> \o s : x \in S, s \in {t \in shorter : Len(t) = n - 1}}

InnerAlphabet == {"S", "{", "}", "X", "V", "Kt", "N"}

\* block bodies worth having whatever MaxInner is
InnerSamples ==
    { <<"Kt">>, <<"Kc">>, <<"Kb1">>, <<"Kb0">>, <<"Kp0">>, <<"N", "V">>,
      <<"N", "{", "Kt", "}">>, <<"N", "{", "N", "{", "Kt", "}", "}">>,
      <<"N", "{", "}">>, <<"N", "{", "V", "}">>,
      <<"X", "S", "X">>, <<"V">>, <<"{", "Kt", "}">>, <<"{", "V", "}">>,
      <<"N", "X">>, <<"Kt", "}", "}", "X">> }

Bodies == {<<>>, <<"X">>, <<"X", "S", "X", "NL">>}

Pad(pad) == IF pad = 1 THEN <<"S">> ELSE <<>>

RECURSIVE Markers(_, _)
Markers(ms, pad) ==
    IF ms = <<>> THEN <<>> ELSE <<Head(ms)>> \o Pad(pad) \o Markers(Tail(ms), pad)

BlockText(src) ==
    IF src.hasblock
      THEN <<"{", "{">> \o Pad(src.pad) \o src.inner \o Pad(src.pad) \o <<"}", "}">>
                \o Pad(src.pad)
      ELSE <<>>

Compose(src) == Markers(src.markers, src.pad) \o BlockText(src) \o src.body

ParseSources ==
    [markers : SeqsUpTo({"M", "P"}, MaxMarkers),
     hasblock : {TRUE},
     inner : InnerSamples \cup SeqsUpTo(InnerAlphabet, MaxInner),
     pad : {0, 1},
     body : Bodies]
    \cup
    [markers : SeqsUpTo({"M", "P"}, MaxMarkers),
     hasblock : {FALSE},
     inner : {<<>>},
     pad : {0, 1},
     body : Bodies]

Pending == [st |-> "pending", text |-> <<>>, config |-> EmptyConfig]

(***************************************************************************)
(* Thread snapshots, as conversations_replies returns them: the messages   *)
(* of one thread in timestamp order, the initiator's first.  A message is  *)
(* [ts, thread_ts, user, text, files, blocks, subtype]; thread_ts = 0      *)
(* stands for a message that carries no thread_ts.                         *)
(***************************************************************************)
Image == [id |-> "f1", mimetype |-> "image/png", name |-> "pic.png"]
Overflow == [id |-> "f3", mimetype |-> "text/plain", name |-> "llm_response.txt"]
FileIds == {"f1", "f3"}

Section(text) == [type |-> "section", text |-> text]

\* a block that is no section (the platform's own rendering of a plain text)
RichText == [type |-> "rich_text", text |-> <<>>]

Shape(user, text, files, blocks) ==
    [user |-> user, text |-> text, files |-> files, blocks |-> blocks]

\* first messages: mention / mention and @public / no mention / a block
\* that is a set literal / mention with the kill-switch / is_bot_mention
\* named in the block only / a bare mention
RootShapes ==
    { Shape("U1", t, <<>>, <<>>) :
        t \in { <<"M", "S", "X">>,
                <<"M", "S", "P", "S", "X">>,
                <<"X">>,
                <<"{", "{", "V", "}", "}", "X">>,
                <<"M", "{", "{", "Kc", "}", "}", "X">>,
                <<"{", "{", "Kb1", "}", "}", "X">>,
                <<"M">> } }

ReplyShapes ==
    { Shape("U1", <<"X">>, <<>>, <<>>),
      Shape("U1", <<"S", "AU", "S", "X">>, <<Image>>, <<>>),
      Shape("U2", <<"X">>, <<Image, Overflow>>, <<>>),
      Shape("U2", <<"M", "S", "P", "S", "X">>, <<>>, <<>>),
      Shape("U2", <<"A">>, <<>>, <<>>),
      Shape(BOT, <<"X">>, <<>>, <<Section(<<"X", "S", "X">>)>>),
      Shape(BOT, <<"L">>, <<Overflow>>, <<Section(<<"L">>)>>),
      Shape(BOT, <<"A", "S", "X">>, <<>>, <<>>),
      Shape(BOT, <<"X">>, <<>>, <<RichText>>),
      Shape(BOT, <<"L">>, <<>>, <<Section(<<"X">>)>>) }

MkMsg(shape, i, n) ==
    [ts |-> 2 * i, thread_ts |-> IF n > 1 THEN 2 ELSE 0, user |-> shape.user,
     text |-> shape.text, files |-> shape.files, blocks |-> shape.blocks,
     subtype |-> "none"]

ThreadsOfLen(n) ==
    { [i \in 1..n |-> MkMsg(IF i = 1 THEN r ELSE s[i - 1], i, n)] :
        r \in RootShapes, s \in [1..(n - 1) -> ReplyShapes] }

Threads == UNION {ThreadsOfLen(n) : n \in 1..MaxThread}

(***************************************************************************)
(* Specification of parse_config_block alone.                              *)
(***************************************************************************)
NoSource == [markers |-> <<>>, hasblock |-> FALSE, inner |-> <<>>, pad |-> 0,
             body |-> <<>>]

ParseIdle == p_src = NoSource /\ p_text = <<>> /\ p_result = Pending

FormatPending == [st |-> "pending", formatted_messages |-> <<>>, thread |-> <<>>]

FormatIdle ==
    f_thread = <<>> /\ f_config = EmptyConfig /\ f_failing = {} /\ f_out = FormatPending

LargePending == [st |-> "pending", text |-> <<>>, file |-> NoFile, calls |-> <<>>]

LargeIdle == l_text = <<>> /\ l_upload = "ok" /\ l_result = LargePending

CachePending == [st |-> "pending", messages |-> <<>>]

CacheIdle == c_messages = <<>> /\ c_out = CachePending

ReplyIdle == [pc |-> "idle", n |-> 0]

DeleteIdle == [pc |-> "idle", todo |-> <<>>]

RaceIdle ==
    /\ r_thread = <<>> /\ r_msg = NoMessage
    /\ r_reply = ReplyIdle /\ r_delete = DeleteIdle

ArtifactPending == [st |-> "pending", text |-> <<>>, artifacts |-> <<>>]

ReconstructPending == [st |-> "pending", text |-> <<>>, messages |-> <<>>]

ArtifactIdle ==
    /\ a_text = <<>> /\ a_first = ArtifactPending /\ a_again = ArtifactPending
    /\ b_blocks = <<>> /\ b_out = ReconstructPending

HandlerIdle ==
    /\ pc = "idle" /\ event = NoEvent /\ world = <<>> /\ h_thread = <<>>
    /\ h_config = EmptyConfig /\ formatted_messages = <<>> /\ calls = <<>>
    /\ exc = "none" /\ raised = FALSE

InitParse ==
    /\ p_src \in ParseSources
    /\ p_text = Compose(p_src)
    /\ p_result = Pending
    /\ FormatIdle
    /\ LargeIdle
    /\ HandlerIdle
    /\ ArtifactIdle
    /\ CacheIdle
    /\ RaceIdle

\* the call parse_config_block(text)
ParseConfigBlock ==
    /\ p_result.st = "pending"
    /\ p_result' = parse_config_block(p_text)
    /\ UNCHANGED <<p_src, p_text, fvars, lvars, hvars, avars, cvars, rvars>>

NextParse == ParseConfigBlock

SpecParse == InitParse /\ [][NextParse]_vars

(***************************************************************************)
(* Specification of format_thread alone.                                   *)
(***************************************************************************)
FormatConfigs ==
    { "is_bot_mention" :> PyTrue,
      ("is_bot_mention" :> PyTrue) @@ ("is_public" :> PyTrue),
      ("is_bot_mention" :> PyTrue) @@ ("is_public" :> PyFalse) }

InitFormat ==
    /\ f_thread \in Threads
    /\ f_config \in FormatConfigs
    /\ f_failing \in SUBSET FileIds
    /\ f_out = FormatPending
    /\ ParseIdle
    /\ LargeIdle
    /\ HandlerIdle
    /\ ArtifactIdle
    /\ CacheIdle
    /\ RaceIdle

\* the call format_thread(thread, client, config)
FormatThread ==
    /\ f_out.st = "pending"
    /\ f_out' = [st |-> "done"] @@ format_thread(f_thread, f_config, f_failing)
    /\ UNCHANGED <<f_thread, f_config, f_failing, pvars, lvars, hvars, avars, cvars, rvars>>

NextFormat == FormatThread

SpecFormat == InitFormat /\ [][NextFormat]_vars

(***************************************************************************)
(* Specification of handle_large_response alone.                           *)
(***************************************************************************)
InitLarge ==
    /\ l_text \in {Chars("x", n) : n \in 0..MaxResponseLen}
    /\ l_upload \in {"ok", "raise"}
    /\ l_result = LargePending
    /\ ParseIdle
    /\ FormatIdle
    /\ HandlerIdle
    /\ ArtifactIdle
    /\ CacheIdle
    /\ RaceIdle

\* the call handle_large_response(text, client, channel, thread_ts)
HandleLargeResponse ==
    /\ l_result.st = "pending"
    /\ l_result' = [st |-> "ret"] @@ handle_large_response(l_text, l_upload, 2)
    /\ UNCHANGED <<l_text, l_upload, pvars, fvars, hvars, avars, cvars, rvars>>

NextLarge == HandleLargeResponse

SpecLarge == InitLarge /\ [][NextLarge]_vars

(***************************************************************************)
(* ClaudeBot.handle_message_deleted                                        *)
(***************************************************************************)
\* lines 370-375: index of the first message whose ts is at or after the
\* deleted one; 0 stands for Python's -1 (none)
after_deleted_idx(messages, deleted_ts) ==
    LET later == {i \in DOMAIN messages : messages[i].ts >= deleted_ts}
    IN  IF later = {} THEN 0 ELSE CHOOSE i \in later : \A j \in later : i <= j

\* the cascade without the author test of line 381
delete_targets_any_author(messages, idx) ==
    [k \in 1..(Len(messages) - idx + 1) |-> messages[idx + k - 1].ts]

\* lines 380-382: the ts of the bot's own messages among messages[idx:]
delete_targets(messages, idx) ==
    LET rest == SubSeq(messages, idx, Len(messages))
        own == SelectSeq(rest, LAMBDA m : m.user = BOT)
    IN  [k \in DOMAIN own |-> own[k].ts]

\* the client calls of one run; fetch_ok is the outcome of
\* conversations_replies, failing the ts whose chat_delete raises
handle_message_deleted(e, messages, fetch_ok, failing) ==
    LET prev == e.previous_message
        fetch == Call("conversations_replies", fetch_ok, prev.thread_ts, "")
        idx == after_deleted_idx(messages, prev.ts)
        targets == delete_targets(messages, idx)
    IN  IF prev.thread_ts = 0 THEN <<>>
        ELSE IF prev.subtype = "tombstone" THEN <<>>
        ELSE IF ~fetch_ok THEN <<fetch>>
        ELSE IF idx = 0 THEN <<fetch>>
        ELSE <<fetch>> \o
             [k \in DOMAIN targets |->
                Call("chat_delete", targets[k] \notin failing, targets[k], "")]

(***************************************************************************)
(* Specification of the event handler: handle_message with                 *)
(* handle_message_deleted, one event at a time.  The handler's steps are   *)
(* cut at the calls that leave the process (thread fetch, model            *)
(* invocation); the outcome of every outside call is chosen by the         *)
(* environment and recorded in `calls`.                                    *)
(***************************************************************************)
\* replies: by the initiator / by someone else, with a mention, @public and
\* a file / by the bot
EventReplyShapes ==
    { Shape("U1", <<"X">>, <<>>, <<>>),
      Shape("U2", <<"M", "S", "P", "S", "X">>, <<Image>>, <<>>),
      Shape(BOT, <<"X">>, <<>>, <<Section(<<"X", "S", "X">>)>>) }

EventThreadsOfLen(n) ==
    { [i \in 1..n |-> MkMsg(IF i = 1 THEN r ELSE s[i - 1], i, n)] :
        r \in RootShapes, s \in [1..(n - 1) -> EventReplyShapes] }

\* a first message on its own may carry a file
EventThreads ==
    UNION {EventThreadsOfLen(n) : n \in 1..MaxThread}
    \cup { <<[th[1] EXCEPT !.files = <<Image>>]>> : th \in EventThreadsOfLen(1) }

\* handle_message_deleted reads no text: its threads all start alike
DeletionThreads == {th \in EventThreads : th[1].text = <<"M", "S", "X">>}

\* what the platform leaves in place of a deleted first message with replies
TombstoneOf(m) ==
    [m EXCEPT !.subtype = "tombstone", !.user = "USLACKBOT", !.text = <<"X">>,
              !.files = <<>>, !.blocks = <<>>]

\* a reply that is no longer listed in the thread
RemovedReply(ts) ==
    [NoMessage EXCEPT !.ts = ts, !.thread_ts = 2, !.user = "U1", !.text = <<"X">>]

Edited(m) == [m EXCEPT !.text = m.text \o <<"S", "X">>]

FailingSets == {{}, FileIds}

Begin(e, w) ==
    /\ pc = "idle"
    /\ pc' = "start"
    /\ event' = e
    /\ world' = w
    /\ UNCHANGED <<h_thread, h_config, formatted_messages, calls, exc, raised>>
    /\ UNCHANGED <<pvars, fvars, lvars, avars, cvars, rvars>>

\* a message is posted: a first message, or a reply into a thread
ReceiveMessage ==
    \E th \in EventThreads : \E i \in DOMAIN th :
        /\ i = 1 => Len(th) = 1
        /\ Begin([subtype |-> "none", message |-> th[i],
                  previous_message |-> NoMessage], th)

\* a message is edited (or the platform re-announces it unchanged)
ReceiveChanged ==
    \E th \in EventThreads : \E i \in DOMAIN th : \E same \in BOOLEAN :
        Begin([subtype |-> "message_changed", message |-> th[i],
               previous_message |-> IF same THEN th[i] ELSE Edited(th[i])], th)

\* the first message of a thread with replies is deleted and becomes a
\* tombstone (fresh), or its tombstone is announced again
ReceiveTombstone ==
    \E th \in DeletionThreads : \E fresh \in BOOLEAN :
        /\ Len(th) > 1
        /\ LET w == [th EXCEPT ![1] = TombstoneOf(th[1])]
           IN  Begin([subtype |-> "message_changed", message |-> w[1],
                      previous_message |-> IF fresh THEN th[1] ELSE w[1]], w)

\* a message is deleted: a reply (gone from the thread, or still listed),
\* a message outside any thread, or the tombstone of a thread
ReceiveDeleted ==
    \/ \E th \in DeletionThreads : \E ts \in 3..(2 * Len(th) + 1) :
         Begin([subtype |-> "message_deleted", message |-> NoMessage,
                previous_message |->
                    IF ts % 2 = 0 THEN th[ts \div 2] ELSE RemovedReply(ts)], th)
    \/ \E th \in DeletionThreads :
         /\ Len(th) = 1
         /\ Begin([subtype |-> "message_deleted", message |-> NoMessage,
                   previous_message |-> th[1]], <<>>)
    \/ \E th \in DeletionThreads :
         /\ Len(th) > 1
         /\ LET w == [th EXCEPT ![1] = TombstoneOf(th[1])]
            IN  Begin([subtype |-> "message_deleted", message |-> NoMessage,
                       previous_message |-> w[1]], w)

ResponseLens == {1, SlackLimit + 1}

Goto(l) == pc' = l /\ UNCHANGED <<event, world, raised>> /\ UNCHANGED <<pvars, fvars, lvars, avars, cvars, rvars>>

\* lines 152-191: classification, and the whole of the new-thread path up
\* to the request
Dispatch(e) ==
    /\ pc = "start"
    /\ LET msg == Msg(e)
           parsed == parse_config_block(msg.text)
       IN  IF IsDeletion(e)
             THEN /\ Goto("deleting")
                  /\ UNCHANGED <<h_thread, h_config, formatted_messages, calls, exc>>
           ELSE IF /\ e.subtype = "message_changed"
                   /\ e.previous_message.text = e.message.text
             THEN /\ Goto("done")
                  /\ UNCHANGED <<h_thread, h_config, formatted_messages, calls, exc>>
           ELSE IF msg.thread_ts # 0
             THEN /\ Goto("fetch")
                  /\ UNCHANGED <<h_thread, h_config, formatted_messages, calls, exc>>
           ELSE IF parsed.st = "raise"
             THEN /\ Goto("except")
                  /\ exc' = "TypeError"
                  /\ UNCHANGED <<h_thread, h_config, formatted_messages, calls>>
           ELSE IF ~Truthy(parsed.config, "is_bot_mention")
             THEN /\ Goto("done")
                  /\ UNCHANGED <<h_thread, h_config, formatted_messages, calls, exc>>
           ELSE \E failing \in FailingSets :
                  /\ Goto("request")
                  /\ h_config' = parsed.config
                  /\ formatted_messages' =
                        << Turn("user", <<TextPart(parsed.text)>>
                                    \o process_attachments(msg.files, failing), 1) >>
                  /\ UNCHANGED <<h_thread, calls, exc>>

HM_Dispatch == Dispatch(event)

\* a handler that goes on whatever the role of the last turn
last_is_assistant_never(fm) == FALSE

\* line 208: formatted_messages[-1]["role"] == "assistant"
last_is_assistant(fm) == fm[Len(fm)].role = "assistant"

\* lines 192-209: the reply path, from the thread fetch to the request
Fetch(e) ==
    /\ pc = "fetch"
    /\ \E fetch_ok \in BOOLEAN, failing \in FailingSets :
        LET msg == Msg(e)
            first == first_msg(world, msg)
            parsed == parse_config_block(first.text)
            snapshot == [world EXCEPT ![1] = [@ EXCEPT !.text = parsed.text]]
            ft == format_thread(snapshot, parsed.config, failing)
            fm == ft.formatted_messages
        IN  /\ calls' = Append(calls, Call("conversations_replies", fetch_ok,
                                           ThreadTs(msg), ""))
            /\ IF ~fetch_ok
                 THEN /\ Goto("except")
                      /\ exc' = "SlackApiError"
                      /\ UNCHANGED <<h_thread, h_config, formatted_messages>>
               ELSE IF parsed.st = "raise"
                 THEN /\ Goto("except")
                      /\ exc' = "TypeError"
                      /\ h_thread' = world
                      /\ UNCHANGED <<h_config, formatted_messages>>
               ELSE IF \/ ~Truthy(parsed.config, "is_bot_mention")
                       \/ /\ ~Truthy(parsed.config, "is_public")
                          /\ msg.user # first.user
                 THEN /\ Goto("done")
                      /\ h_thread' = world
                      /\ h_config' = parsed.config
                      /\ UNCHANGED <<formatted_messages, exc>>
               ELSE IF fm = <<>>
                 THEN /\ Goto("except")
                      /\ exc' = "IndexError"
                      /\ h_thread' = ft.thread
                      /\ h_config' = parsed.config
                      /\ UNCHANGED formatted_messages
               ELSE /\ Goto(IF last_is_assistant(fm) THEN "done" ELSE "request")
                    /\ h_thread' = ft.thread
                    /\ h_config' = parsed.config
                    /\ formatted_messages' = fm
                    /\ UNCHANGED exc

HM_Fetch == Fetch(event)

\* a handler without the kill-switch
skip_claude_never(config) == FALSE

\* line 216: config.get("claude") == False
skip_claude(config) == "claude" \in DOMAIN config /\ config["claude"] = PyFalse

\* lines 211-220: cache marks, the kill-switch, the working reaction
Request(e) ==
    /\ pc = "request"
    /\ IF skip_claude(h_config)
         THEN /\ Goto("done")
              /\ UNCHANGED calls
       ELSE \E ok \in BOOLEAN :
              /\ Goto("invoke")
              /\ calls' = Append(calls, Call("reactions_add", ok, Msg(e).ts, ""))
    /\ formatted_messages' = apply_cache_headers(formatted_messages)
    /\ UNCHANGED <<h_thread, h_config, exc>>

HM_Request == Request(event)

\* lines 222-249: the model invocation and what follows it
Invoke(e) ==
    /\ pc = "invoke"
    /\ LET thread_ts == ThreadTs(Msg(e))
           create(ok) == Call("messages.create", ok, thread_ts, "")
       IN  \/ /\ Goto("except")
              /\ calls' = Append(calls, create(FALSE))
              /\ exc' = "APIError"
           \/ \E n \in ResponseLens, clear_ok \in BOOLEAN,
                 upload \in {"ok", "raise"}, say_ok \in BOOLEAN :
                LET clear == Call("reactions_remove", clear_ok, Msg(e).ts, "")
                    large == handle_large_response(Chars("x", n), upload, thread_ts)
                    before == calls \o <<create(TRUE), clear>> \o large.calls
                IN  IF large.file # NoFile
                      THEN /\ Goto("done")
                           /\ calls' = before
                           /\ UNCHANGED exc
                    ELSE /\ calls' = Append(before, Call("say", say_ok, thread_ts, "reply"))
                         /\ Goto(IF say_ok THEN "done" ELSE "except")
                         /\ exc' = IF say_ok THEN exc ELSE "SlackApiError"
    /\ UNCHANGED <<h_thread, h_config, formatted_messages>>

HM_Invoke == Invoke(event)

\* lines 250-258: the handler's boundary; its own say is not guarded
Except(e) ==
    /\ pc = "except"
    /\ \E say_ok \in BOOLEAN :
        /\ calls' = Append(calls, Call("say", say_ok, ThreadTs(Msg(e)), "error"))
        /\ raised' = ~say_ok
    /\ pc' = "done"
    /\ UNCHANGED <<event, world, h_thread, h_config, formatted_messages, exc>>
    /\ UNCHANGED <<pvars, fvars, lvars, avars, cvars, rvars>>

HM_Except == Except(event)

\* lines 354-392, entered from line 160
HM_Deleted ==
    /\ pc = "deleting"
    /\ \E fetch_ok \in BOOLEAN, failing \in SUBSET {world[i].ts : i \in {j \in DOMAIN world : world[j].user = BOT}} :
        /\ calls' = handle_message_deleted(event, world, fetch_ok, failing)
        /\ h_thread' = IF fetch_ok /\ calls' # <<>> THEN world ELSE <<>>
    /\ Goto("done")
    /\ UNCHANGED <<h_config, formatted_messages, exc>>

\* the handler has returned (or raised): the next event
HM_Return ==
    /\ pc = "done"
    /\ pc' = "idle"
    /\ event' = NoEvent
    /\ world' = <<>>
    /\ h_thread' = <<>>
    /\ h_config' = EmptyConfig
    /\ formatted_messages' = <<>>
    /\ calls' = <<>>
    /\ exc' = "none"
    /\ raised' = FALSE
    /\ UNCHANGED <<pvars, fvars, lvars, avars, cvars, rvars>>

Init ==
    /\ HandlerIdle
    /\ ArtifactIdle
    /\ CacheIdle
    /\ RaceIdle
    /\ ParseIdle
    /\ FormatIdle
    /\ LargeIdle

Next ==
    \/ ReceiveMessage
    \/ ReceiveChanged
    \/ ReceiveTombstone
    \/ ReceiveDeleted
    \/ HM_Dispatch
    \/ HM_Fetch
    \/ HM_Request
    \/ HM_Invoke
    \/ HM_Except
    \/ HM_Deleted
    \/ HM_Return

Spec == Init /\ [][Next]_vars

(***************************************************************************)
(* ArtifactHandler.parse_artifacts                                         *)
(*                                                                         *)
(* Tokens of a model response: "OA", "OB" the first half of an opening     *)
(* tag with identifier a, b (<antArtifact identifier="a" type="t");        *)
(* "OT" its second half (title="x">), "CL" the closing tag                 *)
(* (</antArtifact>), "S", "NL" white space, "X" a word.  An opening tag    *)
(* is a first half, white space, the second half.                          *)
(***************************************************************************)
NoMatch == [matched |-> FALSE, start |-> 0, end |-> 0, identifier |-> "", content |-> <<>>]

\* the least element of a set of positions, 0 if there is none
Least(hits) == IF hits = {} THEN 0 ELSE CHOOSE j \in hits : \A k \in hits : j <= k

\* \s+ : index of the first token at or after i that is not white space
FirstNonSpace(text, i) == Least({j \in i..Len(text) : ~IsSpace(text[j])})

\* (.*?) : index of the first closing tag at or after i
FirstClose(text, i) == Least({j \in i..Len(text) : text[j] = "CL"})

\* ARTIFACT_PATTERN matched at position i: the body runs to the first
\* closing tag (non-greedy), the content is the body without the white
\* space around it
match_at(text, i) ==
    IF At(text, i) \notin {"OA", "OB"} THEN NoMatch
    ELSE LET j == FirstNonSpace(text, i + 1)
             c == FirstClose(text, j + 1)
         IN  IF j <= i + 1 \/ text[j] # "OT" \/ c = 0 THEN NoMatch
             ELSE [matched |-> TRUE, start |-> i, end |-> c,
                   identifier |-> IF text[i] = "OA" THEN "a" ELSE "b",
                   content |-> Strip(SubSeq(text, j + 1, c - 1))]

\* ARTIFACT_PATTERN.finditer(text), from position pos on
RECURSIVE finditer(_, _)
finditer(text, pos) ==
    IF pos > Len(text) THEN <<>>
    ELSE LET m == match_at(text, pos) IN
         IF m.matched THEN <<m>> \o finditer(text, m.end + 1)
         ELSE finditer(text, pos + 1)

\* str.replace(old, ""): every occurrence of old, left to right
RECURSIVE replace(_, _)
replace(text, old) ==
    IF Len(text) < Len(old) THEN text
    ELSE IF SubSeq(text, 1, Len(old)) = old
      THEN replace(SubSeq(text, Len(old) + 1, Len(text)), old)
    ELSE <<Head(text)>> \o replace(Tail(text), old)

\* lines 15-31: the loop over the matches, removing each match's string
RECURSIVE remove_matches(_, _, _)
remove_matches(cleaned_text, text, matches) ==
    IF matches = <<>> THEN cleaned_text
    ELSE LET m == Head(matches) IN
         remove_matches(replace(cleaned_text, SubSeq(text, m.start, m.end)),
                        text, Tail(matches))

artifact_of(m) ==
    [identifier |-> m.identifier, type |-> "t", language |-> "None",
     title |-> "x", content |-> m.content]

parse_artifacts(text) ==
    LET matches == finditer(text, 1)
    IN  [text |-> Strip(remove_matches(text, text, matches)),
         artifacts |-> [k \in DOMAIN matches |-> artifact_of(matches[k])]]

(***************************************************************************)
(* Specification of parse_artifacts, applied to a text and then to the     *)
(* text it returned.                                                       *)
(***************************************************************************)
ArtifactAlphabet == {"OA", "OB", "S", "OT", "CL", "X"}

\* longer responses: two artifacts around prose; an artifact inside the
\* opening tag of another; an artifact whose string occurs again at the end
\* of a later one; nested opening tags; a body broken over lines
ArtifactSamples ==
    { <<"X", "S", "OA", "S", "OT", "X", "CL", "S", "X", "OB", "S", "OT", "S", "X", "S", "CL">>,
      <<"OA", "S", "OB", "S", "OT", "CL", "OT", "CL">>,
      <<"OA", "S", "OT", "CL", "OB", "S", "OT", "OA", "S", "OT", "CL">>,
      <<"OA", "S", "OT", "OB", "S", "OT", "X", "CL", "X", "CL">>,
      <<"OA", "NL", "OT", "NL", "X", "NL", "X", "NL", "CL", "NL">>,
      <<"OA", "S", "OT", "X", "CL", "OA", "S", "OT", "X", "CL">> }

ArtifactTexts == SeqsUpTo(ArtifactAlphabet, MaxArtifactText) \cup ArtifactSamples

InitParseArtifacts ==
    /\ a_text \in ArtifactTexts
    /\ a_first = ArtifactPending
    /\ a_again = ArtifactPending
    /\ b_blocks = <<>>
    /\ b_out = ReconstructPending
    /\ ParseIdle
    /\ FormatIdle
    /\ LargeIdle
    /\ HandlerIdle
    /\ CacheIdle
    /\ RaceIdle

ParseArtifacts ==
    /\ a_first.st = "pending"
    /\ a_first' = [st |-> "done"] @@ parse_artifacts(a_text)
    /\ UNCHANGED <<a_text, a_again, b_blocks, b_out, pvars, fvars, lvars, hvars, cvars, rvars>>

ParseArtifactsAgain ==
    /\ a_first.st = "done"
    /\ a_again.st = "pending"
    /\ a_again' = [st |-> "done"] @@ parse_artifacts(a_first.text)
    /\ UNCHANGED <<a_text, a_first, b_blocks, b_out, pvars, fvars, lvars, hvars, cvars, rvars>>

NextParseArtifacts == ParseArtifacts \/ ParseArtifactsAgain

SpecParseArtifacts == InitParseArtifacts /\ [][NextParseArtifacts]_vars

(***************************************************************************)
(* reconstruct_artifacts (artifact.py, lines 125-167).  A section text is  *)
(* a sequence of tokens: "F" is a fence of three backquotes, "NL" a line   *)
(* break, a token of FenceWords a word of \w characters, "X" prose that    *)
(* holds a space.                                                          *)
(***************************************************************************)
FenceWords == {"html", "xml", "mermaid", "py"}

\* (\w*) : index of the first token at or after i that is no word
WordEnd(text, i) ==
    IF \A j \in i..Len(text) : text[j] \in FenceWords THEN Len(text) + 1
    ELSE Least({j \in i..Len(text) : text[j] \notin FenceWords})

\* \n``` : index of the first line break at or after i that a fence follows
FenceClose(text, i) ==
    Least({k \in i..(Len(text) - 1) : text[k] = "NL" /\ text[k + 1] = "F"})

\* line 137: re.match(r'```(\w*)\n(.*?)\n```', text, re.DOTALL), anchored at
\* the start of the text, the body matched lazily
code_match(text) ==
    IF Len(text) = 0 \/ text[1] # "F" THEN [matched |-> FALSE]
    ELSE LET j == WordEnd(text, 2)
         IN  IF j > Len(text) \/ text[j] # "NL" THEN [matched |-> FALSE]
             ELSE LET k == FenceClose(text, j + 1)
                  IN  IF k = 0 THEN [matched |-> FALSE]
                      ELSE [matched  |-> TRUE,
                            language |-> SubSeq(text, 2, j - 1),
                            content  |-> SubSeq(text, j + 1, k - 1)]

\* lines 143-150: the artifact type for a fence label
artifact_type(language) ==
    IF language = <<"html">> THEN "text/html"
    ELSE IF language = <<"xml">> THEN "image/svg+xml"
    ELSE IF language = <<"mermaid">> THEN "application/vnd.ant.mermaid"
    ELSE "application/vnd.ant.code"

\* line 165: f"block-{len(messages)}"
block_id(n) == <<"block-0", "block-1", "block-2", "block-3", "block-4", "block-5">>[n + 1]

\* lines 154-158: the synthetic tag, as tokens
artifact_tag(current_artifact, language, content) ==
    <<"<antArtifact", current_artifact, artifact_type(language)>> \o language
        \o <<"Code Block", ">">> \o content \o <<"</antArtifact>">>

\* lines 131-165: the loop over the blocks, from a list of messages and a
\* pending identifier ("None" when there is none); a section with no text
\* raises KeyError at line 134
RECURSIVE reconstruct_from(_, _, _)
reconstruct_from(blocks, messages, current_artifact) ==
    IF blocks = <<>> THEN [st |-> "done", messages |-> messages]
    ELSE LET block == Head(blocks)
         IN  IF block.type = "section"
               THEN IF "text" \notin DOMAIN block
                      THEN [st |-> "raised", messages |-> <<>>]
                    ELSE LET m == code_match(block.text)
                         IN  IF ~m.matched
                               THEN reconstruct_from(Tail(blocks),
                                        Append(messages, block.text), current_artifact)
                             ELSE IF current_artifact # "None"
                               THEN reconstruct_from(Tail(blocks),
                                        Append(messages,
                                            artifact_tag(current_artifact, m.language, m.content)),
                                        "None")
                             ELSE reconstruct_from(Tail(blocks), messages, current_artifact)
             ELSE IF block.type = "divider"
               THEN reconstruct_from(Tail(blocks), messages, block_id(Len(messages)))
             ELSE reconstruct_from(Tail(blocks), messages, current_artifact)

\* the outcome of reconstruct_artifacts(blocks): the text returned (line 167)
\* and the list it was joined from
reconstruct_artifacts(blocks) ==
    LET r == reconstruct_from(blocks, <<>>, "None")
    IN  [st |-> r.st, messages |-> r.messages, text |-> Join(r.messages)]

(***************************************************************************)
(* Specification of reconstruct_artifacts alone.                           *)
(***************************************************************************)
Divider == [type |-> "divider", text |-> <<>>]

\* a block of another type, with a text of its own
Header == [type |-> "header", text |-> <<"X">>]

\* a section that carries fields and no text
FieldsSection == [type |-> "section", fields |-> <<"X">>]

\* a fenced text with the given label
Fenced(language) == <<"F">> \o language \o <<"NL", "X", "NL", "F">>

SectionTexts ==
    { <<"X">>, <<"X", "NL", "X">>,
      Fenced(<<"html">>), Fenced(<<"xml">>), Fenced(<<"mermaid">>),
      Fenced(<<"py">>), Fenced(<<>>),
      <<"F", "NL", "NL", "F">>,
      <<"F", "py", "NL", "X">>,
      <<"F", "X", "NL", "X", "NL", "F">>,
      Fenced(<<"py">>) \o <<"NL", "X">> }

Blocks == {Divider, Header, FieldsSection} \cup {Section(text) : text \in SectionTexts}

InitReconstruct ==
    /\ b_blocks \in SeqsUpTo(Blocks, MaxBlocks)
    /\ b_out = ReconstructPending
    /\ a_text = <<>> /\ a_first = ArtifactPending /\ a_again = ArtifactPending
    /\ ParseIdle
    /\ FormatIdle
    /\ LargeIdle
    /\ HandlerIdle
    /\ CacheIdle
    /\ RaceIdle

ReconstructArtifacts ==
    /\ b_out.st = "pending"
    /\ b_out' = reconstruct_artifacts(b_blocks)
    /\ UNCHANGED <<a_text, a_first, a_again, b_blocks, pvars, fvars, lvars, hvars, cvars, rvars>>

NextReconstruct == ReconstructArtifacts

SpecReconstruct == InitReconstruct /\ [][NextReconstruct]_vars

(***************************************************************************)
(* Specification of apply_cache_headers alone.                             *)
(***************************************************************************)
\* the contents of a turn: a text part, then parts made from attachments
Contents ==
    { <<TextPart(<<"X">>)>> \o [j \in 1..n |-> download_and_encode_file(Image, {})[1]] :
        n \in 0..MaxParts }

CacheTurns == {Turn(role, content, 0) : role \in {"user", "assistant"}, content \in Contents}

InitCache ==
    /\ c_messages \in UNION {[1..n -> CacheTurns] : n \in 0..MaxTurns}
    /\ c_out = CachePending
    /\ ParseIdle
    /\ FormatIdle
    /\ LargeIdle
    /\ HandlerIdle
    /\ ArtifactIdle
    /\ RaceIdle

ApplyCacheHeaders ==
    /\ c_out.st = "pending"
    /\ c_out' = [st |-> "done", messages |-> apply_cache_headers(c_messages)]
    /\ UNCHANGED <<c_messages, pvars, fvars, lvars, hvars, avars, rvars>>

NextCache == ApplyCacheHeaders

SpecCache == InitCache /\ [][NextCache]_vars

(***************************************************************************)
(* Specification of two handlers at once.  The framework runs each event's *)
(* listener on its own worker, and the handlers take no lock: while        *)
(* handle_message waits for the model on a reply of the initiator          *)
(* (r_msg), the reply is deleted and handle_message_deleted runs on the    *)
(* deletion event.  Both work on the one thread the platform holds; each   *)
(* step is one call that leaves the process.                               *)
(***************************************************************************)
\* private threads of the initiator whose last message is the initiator's
RaceThreads ==
    {th \in DeletionThreads : Len(th) > 1 /\ th[Len(th)].user = "U1"}

\* the ts the platform gives the next message of the thread
NextTs(th) == 2 * (Len(th) + 1)

\* a message the bot posts under the thread root
BotPost(ts, text) ==
    [NoMessage EXCEPT !.ts = ts, !.thread_ts = 2, !.user = BOT, !.text = text]

\* the thread without the message of the given ts
Without(messages, ts) == SelectSeq(messages, LAMBDA m : m.ts # ts)

\* handle_message has passed lines 152-220 on r_msg and waits at line 222
InitRace ==
    /\ \E th \in RaceThreads : \E i \in 2..Len(th) :
         /\ th[i].user = "U1"
         /\ r_thread = th
         /\ r_msg = th[i]
         /\ r_reply = [pc |-> "invoke", n |-> NextTs(th)]
    /\ r_delete = DeleteIdle
    /\ ParseIdle
    /\ FormatIdle
    /\ LargeIdle
    /\ HandlerIdle
    /\ ArtifactIdle
    /\ CacheIdle

RaceStep == UNCHANGED <<r_msg, pvars, fvars, lvars, hvars, avars, cvars>>

\* the user deletes the message while the model invocation is out; the
\* platform drops it from the thread and sends the deletion event
UserDeletes ==
    /\ r_reply.pc = "invoke"
    /\ r_delete.pc = "idle"
    /\ r_thread' = Without(r_thread, r_msg.ts)
    /\ r_delete' = [r_delete EXCEPT !.pc = "fetch"]
    /\ UNCHANGED r_reply
    /\ RaceStep

\* lines 365-378 of handle_message_deleted: the snapshot and the messages to
\* delete
DeletedFetch ==
    /\ r_delete.pc = "fetch"
    /\ \E fetch_ok \in BOOLEAN :
         LET idx == after_deleted_idx(r_thread, r_msg.ts)
         IN  r_delete' =
                IF fetch_ok /\ idx # 0
                  THEN [pc |-> "delete", todo |-> delete_targets(r_thread, idx)]
                  ELSE [pc |-> "done", todo |-> <<>>]
    /\ UNCHANGED <<r_thread, r_reply>>
    /\ RaceStep

\* lines 380-389: one chat_delete, guarded, or the end of the loop
DeletedDelete ==
    /\ r_delete.pc = "delete"
    /\ IF r_delete.todo = <<>>
         THEN /\ r_delete' = [r_delete EXCEPT !.pc = "done"]
              /\ UNCHANGED r_thread
       ELSE \E ok \in BOOLEAN :
              /\ r_thread' = IF ok THEN Without(r_thread, Head(r_delete.todo))
                             ELSE r_thread
              /\ r_delete' = [r_delete EXCEPT !.todo = Tail(@)]
    /\ UNCHANGED r_reply
    /\ RaceStep

\* line 222: the model invocation returns, or raises
ReplyReturns ==
    /\ r_reply.pc = "invoke"
    /\ \E ok \in BOOLEAN :
         r_reply' = [r_reply EXCEPT !.pc = IF ok THEN "post" ELSE "except"]
    /\ UNCHANGED <<r_thread, r_delete>>
    /\ RaceStep

\* lines 237-249: the overflow upload or the reply, under the thread root
ReplyPosts ==
    /\ r_reply.pc = "post"
    /\ \E n \in ResponseLens, upload \in {"ok", "raise"}, say_ok \in BOOLEAN :
         LET large == handle_large_response(Chars("x", n), upload, 2)
         IN  IF large.file # NoFile
               THEN /\ r_thread' = Append(r_thread, BotPost(r_reply.n, <<"L">>))
                    /\ r_reply' = [r_reply EXCEPT !.pc = "done"]
             ELSE IF say_ok
               THEN /\ r_thread' = Append(r_thread, BotPost(r_reply.n, <<"X">>))
                    /\ r_reply' = [r_reply EXCEPT !.pc = "done"]
             ELSE /\ r_reply' = [r_reply EXCEPT !.pc = "except"]
                  /\ UNCHANGED r_thread
    /\ UNCHANGED r_delete
    /\ RaceStep

\* lines 250-258: the error reply, under the thread root
ReplyExcept ==
    /\ r_reply.pc = "except"
    /\ \E say_ok \in BOOLEAN :
         r_thread' = IF say_ok THEN Append(r_thread, BotPost(r_reply.n, <<"X">>))
                     ELSE r_thread
    /\ r_reply' = [r_reply EXCEPT !.pc = "done"]
    /\ UNCHANGED r_delete
    /\ RaceStep

NextRace ==
    \/ UserDeletes
    \/ DeletedFetch
    \/ DeletedDelete
    \/ ReplyReturns
    \/ ReplyPosts
    \/ ReplyExcept

SpecRace == InitRace /\ [][NextRace]_vars

(***************************************************************************)
(* The claims about parse_config_block (checked under SpecParse).          *)
(*                                                                         *)
(* The well-formed key/value literals, written as a grammar of their own:  *)
(* one "key": value pair whose value is a scalar or a brace-delimited      *)
(* literal, nested at most MaxDepth deep.                                  *)
(***************************************************************************)
RECURSIVE WFValues(_)
WFValues(d) ==
    IF d = 0 THEN {<<"V">>}
    ELSE WFValues(d - 1)
         \cup {<<"{", "}">>, <<"{", "V", "}">>}
         \cup {<<"{", a, "}">> : a \in PairAtoms}
         \cup {<<"{", "N">> \o v \o <<"}">> : v \in WFValues(d - 1)}

WFInner == {<<a>> : a \in PairAtoms} \cup {<<"N">> \o v : v \in WFValues(MaxDepth)}

ExpectedMap(inner) ==
    IF Len(inner) = 1 THEN PairKey(inner[1]) :> PairVal(inner[1])
    ELSE "n" :> Tail(inner)

Range(s) == {s[i] : i \in DOMAIN s}

\* the structural flags of the marker kinds present
Flags(markers) ==
    (IF "M" \in Range(markers) THEN "is_bot_mention" :> PyTrue ELSE EmptyConfig)
    @@ (IF "P" \in Range(markers) THEN "is_public" :> PyTrue ELSE EmptyConfig)

\* the first doubled closing brace after the block's opening is the one
\* that was written to close it
BlockEndsAtClose(src) ==
    LET b == Pad(src.pad) \o src.inner \o Pad(src.pad) \o <<"}", "}">> IN
    \A j \in 2..(Len(b) - 2) : ~(b[j] = "}" /\ b[j + 1] = "}")

MalformedBlock(src) ==
    /\ src.hasblock
    /\ BlockEndsAtClose(src)
    /\ DropSpace(src.inner) \notin (WFInner \cup {<<>>})

\* C8: parse_config_block returns normally for every input text; when the
\* body between the doubled braces is not a well-formed key/value literal,
\* the returned map holds only the structural flags and the cleaned text is
\* the whole remainder, the unparsed brace content included.
C8_NeverRaises ==
    p_result.st # "pending" =>
        /\ p_result.st = "ret"
        /\ MalformedBlock(p_src) =>
             /\ p_result.config = Flags(p_src.markers)
             /\ p_result.text = Strip(BlockText(p_src) \o p_src.body)

\* C9: for any leading markers followed by a well-formed directive block
\* (values that are themselves brace-delimited included) and a body, the
\* cleaned text is the trimmed body and the map is the block's keys and
\* values plus the flags of the marker kinds present.  (Blocks that name a
\* structural key themselves are left to C10.)
C9_WellFormedBlockParsed ==
    ( /\ p_result.st # "pending"
      /\ p_src.hasblock
      /\ DropSpace(p_src.inner) \in WFInner
      /\ DOMAIN ExpectedMap(DropSpace(p_src.inner))
            \cap {"is_bot_mention", "is_public"} = {} )
    => p_result = Returned(Strip(p_src.body),
                           ExpectedMap(DropSpace(p_src.inner)) @@ Flags(p_src.markers))

\* C10: in the returned map is_bot_mention is true if and only if a leading
\* bot-mention token was stripped, whatever the directive block contains.
C10_MentionIsStructural ==
    p_result.st = "ret" =>
        (Truthy(p_result.config, "is_bot_mention") <=> "M" \in Range(p_src.markers))

(***************************************************************************)
(* The claims about format_thread (checked under SpecFormat).              *)
(***************************************************************************)
\* the body, trimmed and with case ignored, starts with the aside marker
AsideBody(text) ==
    \E i \in DOMAIN text :
        /\ text[i] \in {"A", "AU"}
        /\ \A j \in 1..(i - 1) : IsSpace(text[j])

\* the message yields at least one part: a body that is not empty and not
\* the overflow sentinel, or an attachment that resolves
HasContent(msg, failing) ==
    \/ block_text(msg) # <<>> /\ ~StartsWith(block_text(msg), "L")
    \/ \E j \in DOMAIN msg.files : msg.files[j].id \notin failing

\* positions, in the output, of the turns made from message i
TurnsOf(out, i) ==
    {k \in DOMAIN out.formatted_messages : out.formatted_messages[k].src = i}

OtherAuthor(thread, i) == thread[i].user \notin {BOT, thread[1].user}

\* C5: a message of an author who is neither the bot nor the initiator
\* contributes no turn when is_public is not set and a user turn when it is
\* (if it is not an aside and has content); the filter never removes a
\* message of the initiator or of the bot.
C5_VisibilityFilter ==
    f_out.st = "done" =>
      \A i \in DOMAIN f_thread :
        LET msg == f_thread[i]
            turns == TurnsOf(f_out, i)
            included == ~AsideBody(msg.text) /\ HasContent(msg, f_failing)
        IN  /\ (OtherAuthor(f_thread, i) /\ ~Truthy(f_config, "is_public"))
                  => turns = {}
            /\ (OtherAuthor(f_thread, i) /\ Truthy(f_config, "is_public") /\ included)
                  => /\ Cardinality(turns) = 1
                     /\ \A k \in turns : f_out.formatted_messages[k].role = "user"
            /\ (~OtherAuthor(f_thread, i) /\ included) => Cardinality(turns) = 1

\* a private thread in which another user's message with content was left
\* out while the initiator's own message made a turn
C5_Witness ==
    /\ f_out.st = "done"
    /\ ~Truthy(f_config, "is_public")
    /\ \E i \in DOMAIN f_thread :
         /\ OtherAuthor(f_thread, i)
         /\ ~AsideBody(f_thread[i].text)
         /\ HasContent(f_thread[i], f_failing)
         /\ TurnsOf(f_out, i) = {}
    /\ TurnsOf(f_out, 1) # {}

\* C6: a message whose body, trimmed and with case ignored, starts with the
\* aside marker contributes no turn, whoever wrote it and whatever
\* is_public is; so neither its text nor its attachments are in the output.
C6_AsideSkipped ==
    f_out.st = "done" =>
      \A i \in DOMAIN f_thread :
        AsideBody(f_thread[i].text) => TurnsOf(f_out, i) = {}

\* the initiator's own aside, written in upper case after a space and
\* carrying an attachment that resolves, was left out of a non-empty output
C6_Witness ==
    /\ f_out.st = "done"
    /\ f_out.formatted_messages # <<>>
    /\ \E i \in DOMAIN f_thread :
         /\ f_thread[i].user = f_thread[1].user
         /\ AsideBody(f_thread[i].text)
         /\ \E j \in DOMAIN f_thread[i].files : f_thread[i].files[j].id \notin f_failing
         /\ TurnsOf(f_out, i) = {}

\* C12: every turn of the output has at least one part, and a message that
\* yields no part (no body left and no attachment that resolves) has no
\* turn.
C12_NoEmptyTurn ==
    f_out.st = "done" =>
        /\ \A k \in DOMAIN f_out.formatted_messages :
              Len(f_out.formatted_messages[k].content) >= 1
        /\ \A i \in DOMAIN f_thread :
              ~HasContent(f_thread[i], f_failing) => TurnsOf(f_out, i) = {}

\* a message that passes the filters, with a dropped body and an attachment
\* that fails, was left out while other messages made turns
C12_Witness ==
    /\ f_out.st = "done"
    /\ f_out.formatted_messages # <<>>
    /\ \E i \in DOMAIN f_thread :
         /\ is_visible(f_thread[i].user, f_thread[1].user, f_config)
         /\ ~AsideBody(f_thread[i].text)
         /\ f_thread[i].files # <<>>
         /\ ~HasContent(f_thread[i], f_failing)
         /\ TurnsOf(f_out, i) = {}

\* C14: format_thread leaves every message of the thread it is given as it
\* was, and formatting the thread again, as the first call left it, gives
\* the same turns.
C14_InputUnchanged ==
    f_out.st = "done" =>
        /\ f_out.thread = f_thread
        /\ format_thread(f_out.thread, f_config, f_failing).formatted_messages
              = f_out.formatted_messages

\* the bot's messages with display blocks that pass the aside test
WithBlocks(thread) ==
    {i \in DOMAIN thread :
        thread[i].user = BOT /\ thread[i].blocks # <<>> /\ ~AsideBody(thread[i].text)}

\* the texts of the parts of the turn of message i made from its own body
OwnTexts(out, i) ==
    LET k == CHOOSE k \in TurnsOf(out, i) : TRUE
        content == out.formatted_messages[k].content
    IN  IF TurnsOf(out, i) = {} THEN <<>>
        ELSE LET own == SelectSeq(content, LAMBDA part : part.file = "none")
             IN  [j \in DOMAIN own |-> own[j].text]

\* C16 as stated: for a bot message with blocks, if its body is the
\* overflow sentinel no text part is emitted for it; otherwise its text
\* part is the reconstruction from its blocks.
C16_BlocksReplaceBody ==
    f_out.st = "done" =>
      \A i \in WithBlocks(f_thread) :
        IF StartsWith(f_thread[i].text, "L") THEN OwnTexts(f_out, i) = <<>>
        ELSE OwnTexts(f_out, i) = <<reconstruct_from_slackmsg(f_thread[i].blocks)>>

\* C16 amended: the text of a bot message with blocks is the reconstruction
\* from its blocks when that is not empty and its raw body otherwise; no
\* text part is emitted when that text is empty or starts with the overflow
\* sentinel, else it is the one text part of the turn and comes first.
C16_ReconstructionOrBody ==
    f_out.st = "done" =>
      \A i \in WithBlocks(f_thread) :
        LET blocktxt == reconstruct_from_slackmsg(f_thread[i].blocks)
            text == IF blocktxt # <<>> THEN blocktxt ELSE f_thread[i].text
        IN  IF text = <<>> \/ StartsWith(text, "L") THEN OwnTexts(f_out, i) = <<>>
            ELSE /\ OwnTexts(f_out, i) = <<text>>
                 /\ \A k \in TurnsOf(f_out, i) :
                       f_out.formatted_messages[k].content[1].file = "none"

\* a bot message whose blocks reconstruct to a text other than its body
\* made a turn with the reconstruction, next to a bot message whose
\* sentinel body left only its attachment in the turn
C16_Witness ==
    /\ f_out.st = "done"
    /\ \E i \in WithBlocks(f_thread) :
         /\ reconstruct_from_slackmsg(f_thread[i].blocks) # f_thread[i].text
         /\ OwnTexts(f_out, i) = <<reconstruct_from_slackmsg(f_thread[i].blocks)>>
    /\ \E i \in WithBlocks(f_thread) :
         /\ StartsWith(f_thread[i].text, "L")
         /\ TurnsOf(f_out, i) # {}
         /\ OwnTexts(f_out, i) = <<>>

\* the parts message msg is due: its text part, if it has a body that is
\* kept, then one part per attachment that resolves, in attachment order
ExpectedParts(msg, failing) ==
    LET text == block_text(msg)
        resolved == SelectSeq(msg.files, LAMBDA file : file.id \notin failing)
    IN  (IF text # <<>> /\ ~StartsWith(text, "L") THEN <<TextPart(text)>> ELSE <<>>)
        \o [j \in DOMAIN resolved |-> download_and_encode_file(resolved[j], {})[1]]

\* C17: whatever attachments fail, formatting ends, and every message that
\* passes the filters has exactly its text part followed by the parts of
\* its attachments that resolved, in attachment order: a failing attachment
\* removes nothing but its own part.
C17_FailedAttachmentOmitted ==
    /\ f_out.st = "pending" => ENABLED FormatThread
    /\ f_out.st = "done" =>
         \A i \in DOMAIN f_thread :
           LET msg == f_thread[i] IN
           (is_visible(msg.user, f_thread[1].user, f_config) /\ ~AsideBody(msg.text))
             => IF ExpectedParts(msg, f_failing) = <<>> THEN TurnsOf(f_out, i) = {}
                ELSE /\ Cardinality(TurnsOf(f_out, i)) = 1
                     /\ \A k \in TurnsOf(f_out, i) :
                          f_out.formatted_messages[k].content
                              = ExpectedParts(msg, f_failing)

\* of a message with a body and two attachments the first attachment failed
\* and the turn holds the text part, then the second attachment
C17_Witness ==
    /\ f_out.st = "done"
    /\ \E i \in DOMAIN f_thread : \E k \in TurnsOf(f_out, i) :
         LET content == f_out.formatted_messages[k].content IN
         /\ Len(f_thread[i].files) = 2
         /\ f_thread[i].files[1].id \in f_failing
         /\ Len(content) = 2
         /\ content[1].file = "none"
         /\ content[2].file = f_thread[i].files[2].id

(***************************************************************************)
(* The claim about handle_large_response (checked under SpecLarge).        *)
(***************************************************************************)
EndsWithMarker(text) ==
    text # <<>> /\ <<text[Len(text)]>> = TruncationMarker

Uploads(cs) == {i \in DOMAIN cs : cs[i].op = "files_upload_v2"}

\* C7: at most 3000 characters: the text unchanged, no file, no upload;
\* more than 3000 and the upload works: the sentinel text and the file;
\* more than 3000 and the upload fails: returns, without raising, a text
\* that ends with the truncation marker and is at most 3000 long, no file.
C7_OverflowPolicy ==
    l_result.st # "pending" =>
      /\ l_result.st = "ret"
      /\ PyLen(l_text) <= 3000 =>
           /\ l_result.text = l_text
           /\ l_result.file = NoFile
           /\ Uploads(l_result.calls) = {}
      /\ (PyLen(l_text) > 3000 /\ l_upload = "ok") =>
           /\ l_result.text = LONGRESPONSE
           /\ l_result.file = UploadedFile
      /\ (PyLen(l_text) > 3000 /\ l_upload = "raise") =>
           /\ EndsWithMarker(l_result.text)
           /\ PyLen(l_result.text) <= 3000
           /\ l_result.file = NoFile

\* a text of more than 3000 characters was truncated after a failed upload
C7_Witness ==
    /\ l_result.st = "ret"
    /\ PyLen(l_text) > 3000
    /\ l_upload = "raise"
    /\ Cardinality(Uploads(l_result.calls)) = 1
    /\ PyLen(l_result.text) < PyLen(l_text)

(***************************************************************************)
(* The claims about handle_message and handle_message_deleted (checked     *)
(* under Spec).                                                            *)
(***************************************************************************)
Ops(op) == {i \in DOMAIN calls : calls[i].op = op}

Handling == pc # "idle"

\* the event takes the message path (it is not handed to the deletion handler)
MessagePath == Handling /\ ~IsDeletion(event)

YieldsMention(text) ==
    LET r == parse_config_block(text)
    IN  r.st = "ret" /\ Truthy(r.config, "is_bot_mention")

YieldsPublic(text) ==
    LET r == parse_config_block(text)
    IN  r.st = "ret" /\ Truthy(r.config, "is_public")

Invoked == Ops("messages.create") # {}

Posts == Ops("say") \cup Ops("files_upload_v2")

\* C1: for a message event without a thread-parent reference whose own text
\* does not yield is_bot_mention, the handler sets no working reaction,
\* makes no model invocation and posts nothing.
C1_NewThreadGate ==
    (MessagePath /\ Msg(event).thread_ts = 0 /\ ~YieldsMention(Msg(event).text))
        => (Ops("reactions_add") = {} /\ ~Invoked /\ Posts = {})

\* C2: for an event with a thread-parent reference the model is invoked
\* only if the thread's first message yields is_bot_mention, and only if
\* the event's author is the first message's author or the first message
\* yields is_public; the reply's own text does not enter.
C2_ReplyGate ==
    (MessagePath /\ Msg(event).thread_ts # 0 /\ Invoked)
        => /\ YieldsMention(world[1].text)
           /\ \/ Msg(event).user = world[1].user
              \/ YieldsPublic(world[1].text)

\* a reply by someone other than the initiator, itself starting with a
\* mention, has been answered
C2_Witness ==
    /\ MessagePath /\ Msg(event).thread_ts # 0 /\ Invoked
    /\ Msg(event).user # world[1].user
    /\ StartsWith(Msg(event).text, "M")

\* the deletion handler has run to its end on a deletion in a thread
DeletionDone ==
    pc = "done" /\ IsDeletion(event) /\ event.previous_message.thread_ts # 0

FetchFailed == \E i \in Ops("conversations_replies") : ~calls[i].ok

\* the bot's messages of the thread at or after the deleted message
Cascade ==
    {world[i].ts : i \in {j \in DOMAIN world :
        world[j].ts >= event.previous_message.ts /\ world[j].user = BOT}}

Attempted == {calls[i].ts : i \in Ops("chat_delete")}

ExactCascade ==
    Attempted = Cascade /\ Cardinality(Ops("chat_delete")) = Cardinality(Cascade)

\* C3 as stated: on a deletion in a thread whose snapshot can be fetched, a
\* delete is attempted, once, for exactly the bot's messages at or after the
\* deleted message, whatever the outcome of each delete.
C3_CascadeExact == (DeletionDone /\ ~FetchFailed) => ExactCascade

\* C3 amended: the same unless the deleted message is itself a tombstone,
\* in which case the thread is not fetched and no delete is attempted.
C3_CascadeUnlessTombstone ==
    DeletionDone =>
        IF event.previous_message.subtype = "tombstone" THEN calls = <<>>
        ELSE IF FetchFailed THEN Attempted = {}
        ELSE ExactCascade

\* a delete that failed was followed by a further attempt, and a message of
\* another author at or after the deleted one was left alone
C3_Witness ==
    /\ DeletionDone
    /\ \E i, j \in Ops("chat_delete") : i < j /\ ~calls[i].ok
    /\ \E k \in DOMAIN world :
        /\ world[k].ts >= event.previous_message.ts
        /\ world[k].user # BOT

\* C4: whatever step of the message path fails, the handler posts the
\* error reply under the thread root and returns normally: no exception
\* leaves handle_message.
C4_FailuresContained ==
    /\ ~raised
    /\ (pc = "done" /\ exc # "none") =>
          \E i \in Ops("say") :
              /\ calls[i].kind = "error" /\ calls[i].ok
              /\ calls[i].ts = ThreadTs(Msg(event))

\* the text whose directive map is in force for the event: its own for a
\* new thread, the first message's for a reply
InForceText == IF Msg(event).thread_ts = 0 THEN Msg(event).text ELSE world[1].text

Disabled(text) ==
    LET r == parse_config_block(text)
    IN  r.st = "ret" /\ "claude" \in DOMAIN r.config /\ r.config["claude"] = PyFalse

Replies == {i \in Ops("say") : calls[i].kind = "reply"} \cup Ops("files_upload_v2")

TombstoneEdit ==
    Handling /\ event.subtype = "message_changed" /\ event.message.subtype = "tombstone"

\* C18 as stated: handling an edit whose new message is a tombstone makes
\* no model invocation, posts nothing and deletes no message.
C18_TombstoneDropped ==
    TombstoneEdit => (~Invoked /\ Posts = {} /\ Ops("chat_delete") = {})

\* C18 amended: such an edit makes no model invocation, sets no reaction and
\* posts nothing; it is handled as the deletion of the previous message:
\* nothing at all is done when the previous message is itself a tombstone,
\* and otherwise the thread is fetched and the bot's messages at or after
\* the previous message are deleted.
C18_TombstoneIsDeletion ==
    TombstoneEdit =>
        /\ ~Invoked /\ Posts = {} /\ Ops("reactions_add") = {}
        /\ event.previous_message.subtype = "tombstone" => calls = <<>>
        /\ (pc = "done" /\ event.previous_message.subtype # "tombstone")
              => /\ Ops("conversations_replies") # {}
                 /\ ~FetchFailed => ExactCascade

\* the first message of a thread became a tombstone and a reply of the bot
\* was deleted for it
C18_Witness ==
    /\ TombstoneEdit /\ pc = "done"
    /\ \E i \in Ops("chat_delete") : calls[i].ok

\* an edit whose new text equals its previous text
NoOpEdit ==
    /\ Handling /\ event.subtype = "message_changed"
    /\ event.previous_message.text = event.message.text

\* a new message event, or an edit (to no tombstone) whose text differs
Reprocessed(e) ==
    \/ e.subtype = "none"
    \/ /\ e.subtype = "message_changed"
       /\ e.message.subtype # "tombstone"
       /\ e.previous_message.text # e.message.text

\* the edit event for a new message event and the new message event for an
\* edit event, both carrying the same current message
Twin(e) ==
    IF e.subtype = "none"
      THEN [subtype |-> "message_changed", message |-> e.message,
            previous_message |-> Edited(e.message)]
      ELSE [subtype |-> "none", message |-> e.message,
            previous_message |-> NoMessage]

\* every step of the handler on such an event is a step of the handler on
\* its twin
SameAsTwin ==
    (pc \in {"start", "fetch", "request", "invoke", "except"} /\ Reprocessed(event))
        => \/ Dispatch(Twin(event))
           \/ Fetch(Twin(event))
           \/ Request(Twin(event))
           \/ Invoke(Twin(event))
           \/ Except(Twin(event))

LastTurnIs(role) ==
    /\ MessagePath /\ Msg(event).thread_ts # 0
    /\ formatted_messages # <<>>
    /\ formatted_messages[Len(formatted_messages)].role = role

\* C21: for an event with a thread-parent reference the model is invoked
\* only if the last turn of the formatted thread has the user role; when the
\* last turn is an assistant turn there is no model invocation, no working
\* reaction and nothing is posted.
C21_NoAnswerToOwnLast ==
    /\ (MessagePath /\ Msg(event).thread_ts # 0 /\ Invoked) => LastTurnIs("user")
    /\ LastTurnIs("assistant") =>
           (~Invoked /\ Posts = {} /\ Ops("reactions_add") = {})

\* the bot's own reply in a public thread was handled, and left unanswered
C21_Witness ==
    /\ pc = "done" /\ LastTurnIs("assistant")
    /\ event.subtype = "none" /\ Msg(event).user = BOT

\* the calls that put a message of the bot into the thread
Posted == {i \in Posts : calls[i].ok}

\* C23: handling one event puts at most one message of the bot into the
\* thread (the reply, the overflow upload with its sentinel comment, or the
\* error reply), whatever the outcome of the model invocation, of the upload
\* and of each post.
C23_AtMostOnePost == Cardinality(Posted) <= 1

\* the upload of a long response failed, the post of the cut text failed
\* too, and the error reply was posted
C23_Witness ==
    /\ pc = "done"
    /\ \E i \in Ops("files_upload_v2") : ~calls[i].ok
    /\ \E i \in Ops("say") : calls[i].kind = "reply" /\ ~calls[i].ok
    /\ \E i \in Ops("say") : calls[i].kind = "error" /\ calls[i].ok

\* the working reaction was set on the event's message
ReactionSet == \E i \in Ops("reactions_add") : calls[i].ok /\ calls[i].ts = Msg(event).ts

\* a clear of it was attempted afterwards
ClearAttempted ==
    \E i \in Ops("reactions_add") : \E j \in Ops("reactions_remove") :
        i < j /\ calls[j].ts = calls[i].ts

\* C24: when the handling of an event is complete and it has set the working
\* reaction, a clear of that reaction has been attempted, whether the model
\* invocation succeeded or failed.
C24_ReactionCleared == (pc = "done" /\ ReactionSet) => ClearAttempted

(***************************************************************************)
(* The claim about parse_artifacts (checked under SpecParseArtifacts).     *)
(***************************************************************************)
\* the artifact regions of a text: the matches of the tag grammar, left to
\* right, none overlapping another
Regions(text) == finditer(text, 1)

InRegion(text, i) ==
    \E k \in DOMAIN Regions(text) :
        Regions(text)[k].start <= i /\ i <= Regions(text)[k].end

\* the text with every region cut out, by position
RECURSIVE OutsideFrom(_, _)
OutsideFrom(text, i) ==
    IF i > Len(text) THEN <<>>
    ELSE (IF InRegion(text, i) THEN <<>> ELSE <<text[i]>>) \o OutsideFrom(text, i + 1)

Remaining(text) == Strip(OutsideFrom(text, 1))

\* C11: the artifacts returned are those of the regions of the text, in
\* source order; the text returned is the text with every region removed;
\* a second application to the returned text finds no artifact and returns
\* the same text.
C11_ExtractAndIdempotent ==
    a_again.st = "done" =>
        /\ Len(a_first.artifacts) = Len(Regions(a_text))
        /\ \A k \in DOMAIN a_first.artifacts :
              a_first.artifacts[k] = artifact_of(Regions(a_text)[k])
        /\ a_first.text = Remaining(a_text)
        /\ a_again.artifacts = <<>>
        /\ a_again.text = a_first.text

(***************************************************************************)
(* The claim about apply_cache_headers (checked under SpecCache).          *)
(***************************************************************************)
\* the parts that carry the cache mark, as <<turn, part>>
Marked(messages) ==
    {<<k, j>> \in (DOMAIN messages) \X (1..(MaxParts + 2)) :
        j <= Len(messages[k].content) /\ messages[k].content[j].cache_control}

MultiPartUser(messages) ==
    {k \in DOMAIN messages :
        messages[k].role = "user" /\ Len(messages[k].content) > 1}

Unmark(messages) ==
    [k \in DOMAIN messages |->
        [messages[k] EXCEPT !.content =
            [j \in DOMAIN @ |-> [@[j] EXCEPT !.cache_control = FALSE]]]]

\* C15: after apply_cache_headers the marked parts are: none when no user
\* turn has more than one part, else exactly the last part of the most
\* recent user turn with more than one part; nothing else of the turns
\* is changed.
C15_OneCacheMark ==
    c_out.st = "done" =>
        LET multi == MultiPartUser(c_messages) IN
        /\ Unmark(c_out.messages) = c_messages
        /\ multi = {} => Marked(c_out.messages) = {}
        /\ multi # {} =>
              \E k \in multi :
                  /\ \A j \in multi : j <= k
                  /\ Marked(c_out.messages) = {<<k, Len(c_messages[k].content)>>}

\* an older user turn with several parts and a later assistant turn with
\* several parts were left unmarked around the marked one
C15_Witness ==
    /\ c_out.st = "done"
    /\ \E <<k, j>> \in Marked(c_out.messages) :
         /\ \E o \in MultiPartUser(c_messages) : o < k
         /\ k < Len(c_messages)
         /\ c_messages[Len(c_messages)].role = "assistant"
         /\ Len(c_messages[Len(c_messages)].content) > 1

(***************************************************************************)
(* The claim about reconstruct_artifacts (checked under SpecReconstruct).  *)
(***************************************************************************)
\* a section with a text, fenced or not
TextSection(block) == block.type = "section" /\ "text" \in DOMAIN block

FencedSection(block) == TextSection(block) /\ code_match(block.text).matched

\* block i follows a divider with no fenced section in between
FollowsDivider(blocks, i) ==
    \E d \in 1..(i - 1) :
        /\ blocks[d].type = "divider"
        /\ \A j \in (d + 1)..(i - 1) : ~FencedSection(blocks[j])

\* the place in the output of block i, when every block but the dividers
\* has one
PlaceOf(blocks, i) == Cardinality({j \in 1..i : blocks[j].type # "divider"})

ExpectedType(label) ==
    CASE label = <<"html">> -> "text/html"
      [] label = <<"xml">> -> "image/svg+xml"
      [] label = <<"mermaid">> -> "application/vnd.ant.mermaid"
      [] OTHER -> "application/vnd.ant.code"

\* a synthetic artifact tag for the fenced text
TagFor(entry, text) ==
    /\ Len(entry) >= 3
    /\ entry[1] = "<antArtifact"
    /\ entry[3] = ExpectedType(code_match(text).language)
    /\ \E a \in 1..Len(entry) : \E b \in (a - 1)..Len(entry) :
           SubSeq(entry, a, b) = code_match(text).content

\* what the output holds for block i of the list
Reconstructed(blocks, i, entry) ==
    IF ~TextSection(blocks[i]) THEN entry[1] # "<antArtifact"
    ELSE IF ~FencedSection(blocks[i]) THEN entry = blocks[i].text
    ELSE IF FollowsDivider(blocks, i) THEN TagFor(entry, blocks[i].text)
    ELSE entry = blocks[i].text \/ TagFor(entry, blocks[i].text)

\* C20: reconstruct_artifacts returns for every list of blocks, and its
\* output holds, in block order, one entry for every block that is no
\* divider: the text of a non-fenced section verbatim, an artifact tag of the
\* type inferred from the label for a fenced section that follows a divider
\* (the text or a tag for one that follows none), and plain text for every
\* other block; the text returned is these entries joined by line breaks.
C20_NoSectionLost ==
    b_out.st # "pending" =>
        /\ b_out.st = "done"
        /\ b_out.text = Join(b_out.messages)
        /\ Len(b_out.messages) = PlaceOf(b_blocks, Len(b_blocks))
        /\ \A i \in 1..Len(b_blocks) :
               b_blocks[i].type # "divider" =>
                   Reconstructed(b_blocks, i, b_out.messages[PlaceOf(b_blocks, i)])

(***************************************************************************)
(* The claim about a deletion during the handling of the deleted message   *)
(* (checked under SpecRace).                                               *)
(***************************************************************************)
\* the message was deleted while its handling was in flight, and both
\* handlers have completed
BothDone == r_reply.pc = "done" /\ r_delete.pc = "done"

\* the bot's messages left in the thread at or after the deleted message
Orphans ==
    {i \in DOMAIN r_thread : r_thread[i].user = BOT /\ r_thread[i].ts >= r_msg.ts}

\* C22: when the message is deleted while the model invocation for it is
\* out, then once both handlers have completed no message of the bot at or
\* after the deleted message is left in the thread.
C22_NoOrphanReply == BothDone => Orphans = {}

====
